---------------------------- MODULE Spec2Model ----------------------------
(***************************************************************************)
(* A model of CreatureReport (src/creature_report/report.py): the          *)
(* line-by-line parser of a Pandokia log (parse_log), the aggregation it   *)
(* fills (data, stats, empty_log) and the two renderers (to_html,          *)
(* report_stats).                                                          *)
(*                                                                         *)
(* Python strings are TLA+ strings, handled as sequences of characters     *)
(* (Len, SubSeq, \o).  A Python dict is a sequence of [k, v] records in    *)
(* insertion order, so that iteration order is part of the model.          *)
(***************************************************************************)
EXTENDS Integers, Sequences, FiniteSets, TLC

(***************************************************************************)
(* Bounds of the model.                                                    *)
(***************************************************************************)
\* Longest log, in lines, of the parser specification.
MaxLines == 3
\* Longest log, in lines, of the renderer specification.
MaxRenderLines == 3
\* Number of parse_log runs on the log, in the parser specification.
MaxRuns == 2
\* Number of parse_log runs on the log, in the full specification.
MaxRenderRuns == 1
\* The lines after the block head of a log of the edge specification, and its
\* parse_log calls on the log.
MaxEdgeLines == 3
MaxEdgeRuns == 1

(***************************************************************************)
(* Characters and strings.                                                 *)
(***************************************************************************)
\* The printable ASCII characters in code point order: 32 .. 95, then 97 .. 126
\* (the grave accent, 96, cannot be written in a TLA+ string and is left out).
PrintableLow ==
    " !\"#$%&'()*+,-./0123456789:;<=>?@ABCDEFGHIJKLMNOPQRSTUVWXYZ[\\]^_"
PrintableHigh == "abcdefghijklmnopqrstuvwxyz{|}~"

UpperCase == "ABCDEFGHIJKLMNOPQRSTUVWXYZ"
LowerCase == "abcdefghijklmnopqrstuvwxyz"
Digits == "0123456789"

\* s[i] of Python, 1-based here.
Char(s, i) == SubSeq(s, i, i)

\* The 1-based position of character c in string s, 0 when absent.
IndexIn(s, c) ==
    IF \E i \in 1..Len(s) : Char(s, i) = c
    THEN CHOOSE i \in 1..Len(s) : Char(s, i) = c
    ELSE 0

\* The code points, as a table from character to number.
CodePoint ==
    [c \in {"\t"} |-> 9] @@ [c \in {"\n"} |-> 10] @@ [c \in {"\r"} |-> 13]
    @@ [c \in {Char(PrintableLow, i) : i \in 1..Len(PrintableLow)} |->
           31 + IndexIn(PrintableLow, c)]
    @@ [c \in {Char(PrintableHigh, i) : i \in 1..Len(PrintableHigh)} |->
           96 + IndexIn(PrintableHigh, c)]

\* ord(c): the code point of a character.
Ord(c) == CodePoint[c]

\* c.lower() for the upper-case letters, as a table.
LowerOf ==
    [c \in {Char(UpperCase, i) : i \in 1..Len(UpperCase)} |->
        Char(LowerCase, IndexIn(UpperCase, c))]

\* str.isspace for one character.
IsSpace(c) == c \in {" ", "\t", "\n", "\r"}

\* s[:-1]: the string without its last character ('' stays '').
DropLast(s) == IF Len(s) = 0 THEN s ELSE SubSeq(s, 1, Len(s) - 1)

\* The suffix of s from position i on.
From(s, i) == SubSeq(s, i, Len(s))

\* sub in s
Contains(s, sub) ==
    \E i \in 1..(Len(s) - Len(sub) + 1) : SubSeq(s, i, i + Len(sub) - 1) = sub

\* s.startswith(pre)
StartsWith(s, pre) == Len(s) >= Len(pre) /\ SubSeq(s, 1, Len(pre)) = pre

\* str.lstrip() and str.rstrip()
RECURSIVE LStrip(_)
LStrip(s) ==
    IF Len(s) > 0 /\ IsSpace(Char(s, 1)) THEN LStrip(From(s, 2)) ELSE s

RECURSIVE RStrip(_)
RStrip(s) ==
    IF Len(s) > 0 /\ IsSpace(Char(s, Len(s))) THEN RStrip(DropLast(s)) ELSE s

\* str.strip(): leading and trailing whitespace removed.
Strip(s) == RStrip(LStrip(s))

\* str.lower() on ASCII text.
RECURSIVE Lower(_)
Lower(s) ==
    IF Len(s) = 0 THEN ""
    ELSE LET c == Char(s, 1)
         IN  (IF c \in DOMAIN LowerOf THEN LowerOf[c] ELSE c) \o Lower(From(s, 2))

\* s.split(sep) for a one-character separator: the pieces between separators,
\* empty pieces kept.
RECURSIVE Split(_, _)
Split(s, sep) ==
    LET i == IndexIn(s, sep)
    IN  IF i = 0 THEN <<s>>
        ELSE <<SubSeq(s, 1, i - 1)>> \o Split(From(s, i + 1), sep)

\* The position of the first whitespace character of s at or after i, 0 for none.
RECURSIVE FirstSpace(_, _)
FirstSpace(s, i) ==
    IF i > Len(s) THEN 0
    ELSE IF IsSpace(Char(s, i)) THEN i
    ELSE FirstSpace(s, i + 1)

\* s.split(): the maximal runs of non-whitespace characters.
RECURSIVE Words(_)
Words(s) ==
    LET t == LStrip(s)
        i == FirstSpace(t, 1)
    IN  IF Len(t) = 0 THEN <<>>
        ELSE IF i = 0 THEN <<t>>
        ELSE <<SubSeq(t, 1, i - 1)>> \o Words(From(t, i + 1))

\* sep.join(parts)
RECURSIVE Join(_, _)
Join(sep, parts) ==
    IF Len(parts) = 0 THEN ""
    ELSE IF Len(parts) = 1 THEN parts[1]
    ELSE parts[1] \o sep \o Join(sep, Tail(parts))

\* seq[-n:]: the last n elements (all of them when there are fewer).
LastN(seq, n) ==
    IF Len(seq) <= n THEN seq ELSE SubSeq(seq, Len(seq) - n + 1, Len(seq))

\* seq[n:] with n counted from 0: the elements from index n on.
FromIndex(seq, n) == SubSeq(seq, n + 1, Len(seq))

\* a < b for Python strings: lexicographic by code point.
RECURSIVE StrLess(_, _)
StrLess(a, b) ==
    IF Len(b) = 0 THEN FALSE
    ELSE IF Len(a) = 0 THEN TRUE
    ELSE LET x == Ord(Char(a, 1))
             y == Ord(Char(b, 1))
         IN  IF x # y THEN x < y ELSE StrLess(From(a, 2), From(b, 2))

\* The decimal digits, as a table from 0 .. 9 to character.
DigitOf == [n \in 0..9 |-> Char(Digits, n + 1)]

\* str(n) / '{}'.format(n) for a non-negative integer.
RECURSIVE IntStr(_)
IntStr(n) ==
    IF n < 10 THEN DigitOf[n]
    ELSE IntStr(n \div 10) \o DigitOf[n % 10]

\* sorted(strings): insertion of one string into a sorted sequence.
RECURSIVE InsertSorted(_, _)
InsertSorted(s, sorted) ==
    IF Len(sorted) = 0 THEN <<s>>
    ELSE IF StrLess(s, sorted[1]) THEN <<s>> \o sorted
    ELSE <<sorted[1]>> \o InsertSorted(s, Tail(sorted))

\* sorted(strings)
RECURSIVE Sorted(_)
Sorted(strings) ==
    IF Len(strings) = 0 THEN <<>>
    ELSE InsertSorted(strings[1], Sorted(Tail(strings)))

(***************************************************************************)
(* Python dicts: a sequence of [k |-> key, v |-> value] in insertion order. *)
(***************************************************************************)
\* list(d): the keys in insertion order.
Keys(d) == [i \in 1..Len(d) |-> d[i].k]

\* k in d
Has(d, k) == \E i \in 1..Len(d) : d[i].k = k

\* d[k] for a key that is present.
Get(d, k) == d[CHOOSE i \in 1..Len(d) : d[i].k = k].v

\* d[k] = v: a present key keeps its place, a new key goes last.
Put(d, k, v) ==
    IF Has(d, k)
    THEN [i \in 1..Len(d) |-> IF d[i].k = k THEN [k |-> k, v |-> v] ELSE d[i]]
    ELSE Append(d, [k |-> k, v |-> v])

\* Counter.__getitem__: a missing key counts 0.
CounterGet(c, k) == IF Has(c, k) THEN Get(c, k) ELSE 0

\* c[k] += 1 on a Counter.
Incr(c, k) == Put(c, k, CounterGet(c, k) + 1)

(***************************************************************************)
(* The file system, the CreatureReport object and the frame of parse_log.  *)
(***************************************************************************)
VARIABLES
    fs,                 \* path -> [kind, text]: the files on disk
    data,               \* self.data: warning -> module -> test -> count
    stats,              \* self.stats: project -> status -> count
    empty_log,          \* self.empty_log
    creatures,          \* self.creatures
    pc,                 \* "idle", or "parse_log" while the loop of parse_log runs
    fin,                \* the lines of the open log not yet read
    in_data_block,      \* local of parse_log
    scalar_project,     \* local of parse_log: [bound, s]
    scalar_test_name,   \* local of parse_log: [bound, s]
    raised,             \* the exception the last parse_log call ended with, "" for none
    nruns,              \* parse_log calls that opened a log so far
    run_limit,          \* the number of such calls the caller makes
    origin              \* history: path -> [by, run], the renderer that wrote the
                        \* file last and the value of nruns when it did

vars == <<fs, data, stats, empty_log, creatures, pc, fin, in_data_block,
          scalar_project, scalar_test_name, raised, nruns, run_limit, origin>>

\* A local variable that has not been assigned yet, and one holding string s.
Unbound == [bound |-> FALSE, s |-> ""]
Bound(s) == [bound |-> TRUE, s |-> s]

\* What the loop of parse_log reads and writes, as one record.
State ==
    [data |-> data, stats |-> stats, empty_log |-> empty_log,
     in_data_block |-> in_data_block, scalar_project |-> scalar_project,
     scalar_test_name |-> scalar_test_name, raised |-> raised]

\* The state parse_log starts its loop in, for an object holding data d,
\* stats t and empty_log e.
Entry(d, t, e) ==
    [data |-> d, stats |-> t, empty_log |-> e,
     in_data_block |-> FALSE, scalar_project |-> Unbound,
     scalar_test_name |-> Unbound, raised |-> ""]

\* CreatureReport(): the fields __init__ sets.
DefaultCreatures == <<"DeprecationWarning", "FutureWarning">>
Fresh == Entry(<<>>, <<>>, TRUE)

(***************************************************************************)
(* parse_log: the body of the loop over the lines of the log.              *)
(***************************************************************************)
\* _warn_regex.match(row): ^\.\[?warning, case-insensitive.
WarnMatch(row) ==
    LET head == Lower(SubSeq(row, 1, IF Len(row) < 9 THEN Len(row) ELSE 9))
    IN  StartsWith(head, ".warning") \/ StartsWith(head, ".[warning")

\* row.split('=')[1]: the text between the first and the second '='.
ValueOf(row) == Split(row, "=")[2]

\* Branch with the test name taken outside a block too.
BranchNameAnywhere(row, in_block) ==
    IF Contains(row, "scalar_project=") THEN "project"
    ELSE IF Contains(row, "scalar_test_name=") THEN "test_name"
    ELSE IF Contains(row, "scalar_status=") /\ in_block THEN "status"
    ELSE IF WarnMatch(row) /\ in_block THEN "warning"
    ELSE IF row = "END" /\ in_block THEN "end"
    ELSE "skip"

\* Branch with the warning test before the status test.
BranchWarningFirst(row, in_block) ==
    IF Contains(row, "scalar_project=") THEN "project"
    ELSE IF Contains(row, "scalar_test_name=") /\ in_block THEN "test_name"
    ELSE IF WarnMatch(row) /\ in_block THEN "warning"
    ELSE IF Contains(row, "scalar_status=") /\ in_block THEN "status"
    ELSE IF row = "END" /\ in_block THEN "end"
    ELSE "skip"

\* The branch of the if/elif chain that row takes.
Branch(row, in_block) ==
    IF Contains(row, "scalar_project=") THEN "project"
    ELSE IF Contains(row, "scalar_test_name=") /\ in_block THEN "test_name"
    ELSE IF Contains(row, "scalar_status=") /\ in_block THEN "status"
    ELSE IF WarnMatch(row) /\ in_block THEN "warning"
    ELSE IF row = "END" /\ in_block THEN "end"
    ELSE "skip"

\* if self.empty_log: self.empty_log = False
MarkRead(st) == [st EXCEPT !.empty_log = FALSE]

\* Start of individual test log.
StartBlock(st, row) ==
    LET project == ValueOf(row)
    IN  [st EXCEPT !.in_data_block = TRUE,
                   !.scalar_project = Bound(project),
                   !.stats = IF Has(st.stats, project) THEN st.stats
                             ELSE Put(st.stats, project, <<>>)]

\* Individual test name.
SetTestName(st, row) == [st EXCEPT !.scalar_test_name = Bound(ValueOf(row))]

\* CountStatus without the split: the whole row is the key that is counted.
CountStatusWholeRow(st, row) ==
    LET project == st.scalar_project.s
    IN  IF ~st.scalar_project.bound THEN [st EXCEPT !.raised = "UnboundLocalError"]
        ELSE IF ~Has(st.stats, project) THEN [st EXCEPT !.raised = "KeyError"]
        ELSE [st EXCEPT !.stats =
                 Put(st.stats, project, Incr(Get(st.stats, project), row))]

\* Individual test result.
CountStatus(st, row) ==
    LET scalar_status == ValueOf(row)
        project == st.scalar_project.s
    IN  IF ~st.scalar_project.bound THEN [st EXCEPT !.raised = "UnboundLocalError"]
        ELSE IF ~Has(st.stats, project) THEN [st EXCEPT !.raised = "KeyError"]
        ELSE [st EXCEPT !.stats =
                 Put(st.stats, project, Incr(Get(st.stats, project), scalar_status))]

\* The creature filter of a warning line.
HasCreature(row, cr) ==
    Len(cr) = 0 \/ \E i \in 1..Len(cr) : Contains(row, cr[i])

\* ModuleLoc with the index off by one: words[1] in place of words[2].
ModuleLocSecondWord(words) == DropLast(Join("/", LastN(Split(words[2], "/"), 3)))

\* words[2], cut to its last three path segments, less its last character.
ModuleLoc(words) == DropLast(Join("/", LastN(Split(words[3], "/"), 3)))

\* ' '.join(words[3:])
WarnStr(words) == Join(" ", FromIndex(words, 3))

\* '{}: {}'.format(scalar_project, scalar_test_name)
TInfo(project, test_name) == project \o ": " \o test_name

\* Store with an assignment in place of the increment: the leaf is set to 1.
StoreFirstOnly(d, warn_str, module_loc, t_info) ==
    LET d1 == IF Has(d, warn_str) THEN d ELSE Put(d, warn_str, <<>>)
        w1 == Get(d1, warn_str)
        w2 == IF Has(w1, module_loc) THEN w1 ELSE Put(w1, module_loc, <<>>)
    IN  Put(d1, warn_str, Put(w2, module_loc, Put(Get(w2, module_loc), t_info, 1)))

\* Store in class data.
Store(d, warn_str, module_loc, t_info) ==
    LET d1 == IF Has(d, warn_str) THEN d ELSE Put(d, warn_str, <<>>)
        w1 == Get(d1, warn_str)
        w2 == IF Has(w1, module_loc) THEN w1 ELSE Put(w1, module_loc, <<>>)
    IN  Put(d1, warn_str, Put(w2, module_loc, Incr(Get(w2, module_loc), t_info)))

\* Warning to be captured.
RecordWarning(st, row, cr) ==
    IF ~HasCreature(row, cr) THEN st
    ELSE LET words == Words(row)
         IN  IF Len(words) < 3 THEN [st EXCEPT !.raised = "IndexError"]
             ELSE IF ~st.scalar_project.bound \/ ~st.scalar_test_name.bound
                  THEN [st EXCEPT !.raised = "UnboundLocalError"]
             ELSE [st EXCEPT !.data =
                      Store(st.data, WarnStr(words), ModuleLoc(words),
                            TInfo(st.scalar_project.s, st.scalar_test_name.s))]

\* End of individual test log.
EndBlock(st) ==
    [st EXCEPT !.in_data_block = FALSE,
               !.scalar_project = Bound(""),
               !.scalar_test_name = Bound("")]

\* One iteration of the loop, on the line just read.
Body(st, line, cr) ==
    LET row == Strip(line)
        st1 == MarkRead(st)
        b == Branch(row, st.in_data_block)
    IN  CASE b = "project" -> StartBlock(st1, row)
          [] b = "test_name" -> SetTestName(st1, row)
          [] b = "status" -> CountStatus(st1, row)
          [] b = "warning" -> RecordWarning(st1, row, cr)
          [] b = "end" -> EndBlock(st1)
          [] OTHER -> st1

\* The whole loop: the lines in order, up to the first exception.
RECURSIVE RunLoop(_, _, _)
RunLoop(st, lines, cr) ==
    IF Len(lines) = 0 \/ st.raised # "" THEN st
    ELSE RunLoop(Body(st, Head(lines), cr), Tail(lines), cr)

\* for line in fin: the text cut after each newline, the newline kept.
RECURSIVE ReadLines(_)
ReadLines(text) ==
    IF Len(text) = 0 THEN <<>>
    ELSE LET i == IndexIn(text, "\n")
         IN  IF i = 0 THEN <<text>>
             ELSE <<SubSeq(text, 1, i)>> \o ReadLines(From(text, i + 1))

(***************************************************************************)
(* The renderers.                                                          *)
(***************************************************************************)
\* SortedKeys without sorted(): the keys in the order the dict holds them.
InsertionKeys(d) == Keys(d)

\* sorted(d): the keys of a dict in ascending order.
SortedKeys(d) == Sorted(Keys(d))

\* TestParas with val >= 1 in place of val > 1: every paragraph is annotated.
RECURSIVE TestParasFromOne(_, _)
TestParasFromOne(t_counter, t_infos) ==
    IF Len(t_infos) = 0 THEN ""
    ELSE LET t_info == Head(t_infos)
             val == Get(t_counter, t_info)
         IN  "<p>&emsp;&emsp;&emsp;&emsp;" \o t_info
             \o (IF val >= 1 THEN " (repeated " \o IntStr(val) \o " times)" ELSE "")
             \o "</p>\n"
             \o TestParasFromOne(t_counter, Tail(t_infos))

\* The paragraphs of the test identifiers of one module.
RECURSIVE TestParas(_, _)
TestParas(t_counter, t_infos) ==
    IF Len(t_infos) = 0 THEN ""
    ELSE LET t_info == Head(t_infos)
             val == Get(t_counter, t_info)
         IN  "<p>&emsp;&emsp;&emsp;&emsp;" \o t_info
             \o (IF val > 1 THEN " (repeated " \o IntStr(val) \o " times)" ELSE "")
             \o "</p>\n"
             \o TestParas(t_counter, Tail(t_infos))

\* The paragraphs of the module locations of one warning.
RECURSIVE ModuleParas(_, _)
ModuleParas(warn_dict, module_locs) ==
    IF Len(module_locs) = 0 THEN ""
    ELSE LET module_loc == Head(module_locs)
             t_counter == Get(warn_dict, module_loc)
         IN  "<p>&emsp;&emsp;" \o module_loc \o "</p>\n"
             \o TestParas(t_counter, SortedKeys(t_counter))
             \o ModuleParas(warn_dict, Tail(module_locs))

\* The paragraphs of the warnings.
RECURSIVE WarnParas(_, _)
WarnParas(d, warn_strs) ==
    IF Len(warn_strs) = 0 THEN ""
    ELSE LET warn_str == Head(warn_strs)
             warn_dict == Get(d, warn_str)
         IN  "<p>" \o warn_str \o "</p>\n"
             \o ModuleParas(warn_dict, SortedKeys(warn_dict))
             \o WarnParas(d, Tail(warn_strs))

EmptyNotice == "<p>PDK log is empty!</p>\n"
NoInfoNotice == "<p>PDK log has no info of interest! Yes, this is a good thing.</p>\n"

\* has_data
HasData(d) == Len(d) > 0

\* Html with the two notices taken for one another.
HtmlNoticesSwapped(d, empty, title) ==
    "<html>\n" \o "<title>" \o title \o "</title>\n" \o "<body>\n"
    \o (IF HasData(d) THEN WarnParas(d, SortedKeys(d))
        ELSE IF empty THEN NoInfoNotice
        ELSE EmptyNotice)
    \o "</body>\n</html>\n"

\* Everything to_html writes.
Html(d, empty, title) ==
    "<html>\n" \o "<title>" \o title \o "</title>\n" \o "<body>\n"
    \o (IF HasData(d) THEN WarnParas(d, SortedKeys(d))
        ELSE IF empty THEN EmptyNotice
        ELSE NoInfoNotice)
    \o "</body>\n</html>\n"

\* json.dumps of a string: quoted, with the escapes of quote, backslash and
\* the whitespace control characters.
RECURSIVE JsonEscape(_)
JsonEscape(s) ==
    IF Len(s) = 0 THEN ""
    ELSE LET c == Char(s, 1)
         IN  (CASE c = "\"" -> "\\\""
                [] c = "\\" -> "\\\\"
                [] c = "\t" -> "\\t"
                [] c = "\n" -> "\\n"
                [] c = "\r" -> "\\r"
                [] OTHER -> c)
             \o JsonEscape(From(s, 2))

JsonStr(s) == "\"" \o JsonEscape(s) \o "\""

\* The members of one project's Counter, keys sorted, at indent level 2.
RECURSIVE JsonCounts(_, _)
JsonCounts(counter, keys) ==
    IF Len(keys) = 0 THEN ""
    ELSE "\n        " \o JsonStr(Head(keys)) \o ": " \o IntStr(Get(counter, Head(keys)))
         \o (IF Len(keys) > 1 THEN "," ELSE "")
         \o JsonCounts(counter, Tail(keys))

\* One project's Counter: {} when empty.
JsonCounter(counter) ==
    IF Len(counter) = 0 THEN "{}"
    ELSE "{" \o JsonCounts(counter, SortedKeys(counter)) \o "\n    }"

\* The members of stats, keys sorted, at indent level 1.
RECURSIVE JsonProjects(_, _)
JsonProjects(t, keys) ==
    IF Len(keys) = 0 THEN ""
    ELSE "\n    " \o JsonStr(Head(keys)) \o ": " \o JsonCounter(Get(t, Head(keys)))
         \o (IF Len(keys) > 1 THEN "," ELSE "")
         \o JsonProjects(t, Tail(keys))

\* json.dump(self.stats, fout, sort_keys=True, indent=4)
Json(t) ==
    IF Len(t) = 0 THEN "{}"
    ELSE "{" \o JsonProjects(t, SortedKeys(t)) \o "\n}"

(***************************************************************************)
(* Files.                                                                  *)
(***************************************************************************)
LogPath == "pdklog.txt"
MissingPath == "nolog.txt"
DirPath == "logs"
NewPath == "rep.out"
OldPath == "old.out"

Paths == {LogPath, MissingPath, DirPath, NewPath, OldPath}
\* The paths handed to parse_log, and those handed to to_html and report_stats.
InPaths == {LogPath, MissingPath, DirPath}
OutPaths == {NewPath, OldPath}

DefaultTitle == "Creature Report"

NoFile == [kind |-> "none", text |-> ""]
Dir == [kind |-> "dir", text |-> ""]
File(text) == [kind |-> "file", text |-> text]

\* os.path.exists
Exists(f, path) == f[path].kind # "none"

\* IsFile with os.path.exists in place of os.path.isfile.
IsFileExists(f, path) == Exists(f, path)

\* os.path.isfile
IsFile(f, path) == f[path].kind = "file"

\* What a previous day left at OldPath.
StaleText == "old\n"

\* WriteFile with open(filename, 'a'): the text goes after what the file held.
WriteFileAppend(f, path, text) == [f EXCEPT ![path] = File(f[path].text \o text)]

\* open(filename, 'w'), the writes and the close: the file holds text alone.
WriteFile(f, path, text) == [f EXCEPT ![path] = File(text)]

\* Gate with the flag read the wrong way round.
GateInverted(f, path, overwrite) == overwrite /\ Exists(f, path)

\* if not overwrite and os.path.exists(filename): ... return
Gate(f, path, overwrite) == ~overwrite /\ Exists(f, path)

(***************************************************************************)
(* The logs.                                                               *)
(***************************************************************************)
\* The lines the logs of the parser specification are made of.
LogLines ==
    { "scalar_project=alpha\n",
      "scalar_test_name=test1\n",
      "scalar_status=P\n",
      ".[WARNING] /path/to/pkg/mod.py:12: DeprecationWarning: foo is deprecated\n",
      ".Warning: FutureWarning\n",
      " END \n",
      "ok\n" }

\* The lines the logs of the full specification are made of: a second test
\* name, and two warnings; FirstWarning has the text of the one and the module
\* of the other, and both go before it in ascending order.
RenderLines ==
    { "scalar_test_name=T\n",
      ".warning in m/B.py: FutureWarning: b\n",
      ".warning in m/b.py: FutureWarning: B\n" }

FirstWarning == ".warning in m/b.py: FutureWarning: b\n"

\* The lines that open a block and name its test, and those that close it.
BlockHead == "scalar_project=alpha\nscalar_test_name=test1\n"
BlockTail == "scalar_status=P\nEND\n"

\* The texts made of at most n of the given lines.
RECURSIVE Texts(_, _)
Texts(lines, n) ==
    IF n = 0 THEN {""}
    ELSE LET shorter == Texts(lines, n - 1)
         IN  shorter \cup {t \o l : t \in shorter, l \in lines}

\* The logs of the parser specification: at most n of its lines, alone or
\* after a block head.
ParseLogs(n) ==
    LET t == Texts(LogLines, n)
    IN  t \cup {BlockHead \o x : x \in t}

\* The logs of the full specification: at most n of its lines, alone, after a
\* block head, or in a whole block that starts with FirstWarning.
RenderLogs(n) ==
    LET t == Texts(RenderLines, n)
    IN  t \cup {BlockHead \o x : x \in t}
          \cup {BlockHead \o FirstWarning \o x \o BlockTail : x \in t}

\* The lines the logs of the edge specification are made of: a second
\* project, a second test name, a status with '=' in its value, a warning, a
\* warning whose text holds scalar_status=, and END.
EdgeLines ==
    { "scalar_project=beta\n",
      "scalar_test_name=T\n",
      "scalar_status=P=1\n",
      ".warning in m/b.py: FutureWarning: b\n",
      ".warning in m/b.py: FutureWarning: scalar_status=P\n",
      "END\n" }

\* The logs of the edge specification: at most n of its lines after a block
\* head.
EdgeLogs(n) == {BlockHead \o x : x \in Texts(EdgeLines, n)}

(***************************************************************************)
(* The state machine.                                                      *)
(***************************************************************************)
NoOrigin == [by |-> "", run |-> 0]

\* The disk before the first call: the log, a directory, yesterday's output.
Disk(text) ==
    [p \in Paths |->
        CASE p = LogPath -> File(text)
          [] p = DirPath -> Dir
          [] p = OldPath -> File(StaleText)
          [] OTHER -> NoFile]

\* c = CreatureReport(), with the log `text` on disk and `limit` parse runs
\* to come.
InitWith(text, limit) ==
    /\ fs = Disk(text)
    /\ data = Fresh.data
    /\ stats = Fresh.stats
    /\ empty_log = Fresh.empty_log
    /\ creatures = DefaultCreatures
    /\ pc = "idle"
    /\ fin = <<>>
    /\ in_data_block = FALSE
    /\ scalar_project = Unbound
    /\ scalar_test_name = Unbound
    /\ raised = ""
    /\ nruns = 0
    /\ run_limit = limit
    /\ origin = [p \in Paths |-> NoOrigin]

Init == \E text \in RenderLogs(MaxRenderLines) : InitWith(text, MaxRenderRuns)

ParseInit == \E text \in ParseLogs(MaxLines) : InitWith(text, MaxRuns)

EdgeInit == \E text \in EdgeLogs(MaxEdgeLines) : InitWith(text, MaxEdgeRuns)

\* The locals of parse_log are gone once it has returned or raised.
DropFrame ==
    /\ pc' = "idle"
    /\ fin' = <<>>
    /\ in_data_block' = FALSE
    /\ scalar_project' = Unbound
    /\ scalar_test_name' = Unbound

\* parse_log(filename) on a path that is no regular file: a message, return.
ParseLogMissing(filename) ==
    /\ pc = "idle"
    /\ ~IsFile(fs, filename)
    /\ raised' = ""
    /\ UNCHANGED <<fs, data, stats, empty_log, creatures, pc, fin, in_data_block,
                   scalar_project, scalar_test_name, nruns, run_limit, origin>>

\* ParseLogOpen with the aggregation set back to empty at every call.
ParseLogOpenReset(filename) ==
    /\ pc = "idle"
    /\ IsFile(fs, filename)
    /\ nruns < run_limit
    /\ pc' = "parse_log"
    /\ fin' = ReadLines(fs[filename].text)
    /\ in_data_block' = FALSE
    /\ scalar_project' = Unbound
    /\ scalar_test_name' = Unbound
    /\ raised' = ""
    /\ nruns' = nruns + 1
    /\ data' = <<>>
    /\ stats' = <<>>
    /\ UNCHANGED <<fs, empty_log, creatures, run_limit, origin>>

\* parse_log(filename) on a regular file, up to the first iteration.
ParseLogOpen(filename) ==
    /\ pc = "idle"
    /\ IsFile(fs, filename)
    /\ nruns < run_limit
    /\ pc' = "parse_log"
    /\ fin' = ReadLines(fs[filename].text)
    /\ in_data_block' = FALSE
    /\ scalar_project' = Unbound
    /\ scalar_test_name' = Unbound
    /\ raised' = ""
    /\ nruns' = nruns + 1
    /\ UNCHANGED <<fs, data, stats, empty_log, creatures, run_limit, origin>>

\* The call parse_log(filename), up to its return or its first iteration.
parse_log(filename) == ParseLogMissing(filename) \/ ParseLogOpen(filename)

\* The loop is at a line that takes branch b.
AtLine(b) ==
    /\ pc = "parse_log"
    /\ Len(fin) > 0
    /\ Branch(Strip(Head(fin)), in_data_block) = b

\* One iteration of the loop: the body on the next line; an exception ends
\* the call.
Iterate ==
    /\ pc = "parse_log"
    /\ Len(fin) > 0
    /\ LET next == Body(State, Head(fin), creatures)
       IN  /\ data' = next.data
           /\ stats' = next.stats
           /\ empty_log' = next.empty_log
           /\ raised' = next.raised
           /\ IF next.raised # ""
              THEN DropFrame
              ELSE /\ pc' = pc
                   /\ fin' = Tail(fin)
                   /\ in_data_block' = next.in_data_block
                   /\ scalar_project' = next.scalar_project
                   /\ scalar_test_name' = next.scalar_test_name
    /\ UNCHANGED <<fs, creatures, nruns, run_limit, origin>>

ProjectLine ==
    /\ AtLine("project")
    /\ Iterate

TestNameLine ==
    /\ AtLine("test_name")
    /\ Iterate

StatusLine ==
    /\ AtLine("status")
    /\ Iterate

WarningLine ==
    /\ AtLine("warning")
    /\ Iterate

EndLine ==
    /\ AtLine("end")
    /\ Iterate

SkipLine ==
    /\ AtLine("skip")
    /\ Iterate

\* The end of the file: parse_log returns.
ParseLogReturn ==
    /\ pc = "parse_log"
    /\ Len(fin) = 0
    /\ DropFrame
    /\ UNCHANGED <<fs, data, stats, empty_log, creatures, raised, nruns,
                   run_limit, origin>>

\* to_html that empties data once the document is written.
to_htmlFlushing(filename, title, overwrite) ==
    /\ pc = "idle"
    /\ IF Gate(fs, filename, overwrite)
       THEN UNCHANGED <<fs, origin, data>>
       ELSE /\ fs' = WriteFile(fs, filename, Html(data, empty_log, title))
            /\ origin' = [origin EXCEPT ![filename] = [by |-> "to_html", run |-> nruns]]
            /\ data' = <<>>
    /\ UNCHANGED <<stats, empty_log, creatures, pc, fin, in_data_block,
                   scalar_project, scalar_test_name, raised, nruns, run_limit>>

\* to_html(filename, title, overwrite)
to_html(filename, title, overwrite) ==
    /\ pc = "idle"
    /\ IF Gate(fs, filename, overwrite)
       THEN UNCHANGED <<fs, origin>>
       ELSE /\ fs' = WriteFile(fs, filename, Html(data, empty_log, title))
            /\ origin' = [origin EXCEPT ![filename] = [by |-> "to_html", run |-> nruns]]
    /\ UNCHANGED <<data, stats, empty_log, creatures, pc, fin, in_data_block,
                   scalar_project, scalar_test_name, raised, nruns, run_limit>>

\* report_stats(filename, overwrite)
report_stats(filename, overwrite) ==
    /\ pc = "idle"
    /\ IF Gate(fs, filename, overwrite)
       THEN UNCHANGED <<fs, origin>>
       ELSE /\ fs' = WriteFile(fs, filename, Json(stats))
            /\ origin' = [origin EXCEPT ![filename] = [by |-> "report_stats", run |-> nruns]]
    /\ UNCHANGED <<data, stats, empty_log, creatures, pc, fin, in_data_block,
                   scalar_project, scalar_test_name, raised, nruns, run_limit>>

ParseNext ==
    \/ \E filename \in InPaths : ParseLogMissing(filename)
    \/ \E filename \in InPaths : ParseLogOpen(filename)
    \/ ProjectLine
    \/ TestNameLine
    \/ StatusLine
    \/ WarningLine
    \/ EndLine
    \/ SkipLine
    \/ ParseLogReturn

RenderNext ==
    \/ \E filename \in OutPaths, overwrite \in BOOLEAN :
          to_html(filename, DefaultTitle, overwrite)
    \/ \E filename \in OutPaths, overwrite \in BOOLEAN :
          report_stats(filename, overwrite)

Next == ParseNext \/ RenderNext

\* The whole life of one CreatureReport: parsing and rendering.
Spec == Init /\ [][Next]_vars

\* Parsing alone, on the wider set of logs.
ParseSpec == ParseInit /\ [][ParseNext]_vars

\* Parsing alone, on the logs of the edge specification.
EdgeSpec == EdgeInit /\ [][ParseNext]_vars

(***************************************************************************)
(* The vocabulary of the properties, defined on the text of the log.       *)
(***************************************************************************)
\* The lines of the log.
LogRows == ReadLines(fs[LogPath].text)

\* The lines the running parse_log call has read so far.
RowsRead == SubSeq(LogRows, 1, Len(LogRows) - Len(fin))

\* What one parse_log call on the log does to a fresh CreatureReport.
FirstRun == RunLoop(Fresh, LogRows, creatures)

\* The text of s after its first occurrence of character c.
After(s, c) == From(s, IndexIn(s, c) + 1)

\* A block is open after these lines: the last of the lines that contain
\* scalar_project= or are END is a scalar_project= line.
RECURSIVE OpenAfter(_)
OpenAfter(lines) ==
    IF Len(lines) = 0 THEN FALSE
    ELSE LET row == Strip(lines[Len(lines)])
         IN  IF Contains(row, "scalar_project=") THEN TRUE
             ELSE IF row = "END" THEN FALSE
             ELSE OpenAfter(SubSeq(lines, 1, Len(lines) - 1))

\* The project of the last scalar_project= line of these lines.
RECURSIVE ProjectAfter(_)
ProjectAfter(lines) ==
    IF Len(lines) = 0 THEN ""
    ELSE LET row == Strip(lines[Len(lines)])
         IN  IF Contains(row, "scalar_project=") THEN After(row, "=")
             ELSE ProjectAfter(SubSeq(lines, 1, Len(lines) - 1))

\* The set of keys of a dict, and the counter stats[p][s] (0 when absent).
KeySet(d) == {d[i].k : i \in 1..Len(d)}
CounterAt(t, p, s) == IF Has(t, p) THEN CounterGet(Get(t, p), s) ELSE 0
StatusKeys(t) == UNION {KeySet(t[i].v) : i \in 1..Len(t)}

\* No key occurs twice in a dict.
UniqueKeys(d) == \A i, j \in 1..Len(d) : d[i].k = d[j].k => i = j

\* data[w][m][t], 0 when any of the keys is absent.
Leaf(d, w, m, t) ==
    IF Has(d, w) /\ Has(Get(d, w), m) THEN CounterGet(Get(Get(d, w), m), t) ELSE 0

\* The (warning, module, test) triples that data holds.
Triples(d) ==
    UNION {UNION {{<<d[i].k, d[i].v[j].k, d[i].v[j].v[n].k>> :
                      n \in 1..Len(d[i].v[j].v)} :
                  j \in 1..Len(d[i].v)} :
           i \in 1..Len(d)}

\* Every counter of a Counter, of stats and of data times n.
ScaleCounter(c, n) == [i \in 1..Len(c) |-> [k |-> c[i].k, v |-> c[i].v * n]]
ScaleStats(t, n) == [i \in 1..Len(t) |-> [k |-> t[i].k, v |-> ScaleCounter(t[i].v, n)]]
ScaleData(d, n) == [i \in 1..Len(d) |-> [k |-> d[i].k, v |-> ScaleStats(d[i].v, n)]]

(***************************************************************************)
(* C1.  The log of the example: a block of project alpha, test test1, and  *)
(* the warning line of the example.                                        *)
(***************************************************************************)
C1_Log ==
    "scalar_project=alpha\nscalar_test_name=test1\n"
    \o ".[WARNING] /path/to/pkg/mod.py:12: DeprecationWarning: foo is deprecated\n"

C1_Parsed == fs[LogPath].text = C1_Log /\ pc = "idle" /\ nruns = 1

\* C1 as stated: parsing the example log with a fresh CreatureReport gives
\* data['DeprecationWarning: foo is deprecated']['pkg/mod.py']['alpha: test1'] = 1.
C1_AsStated ==
    C1_Parsed =>
        Leaf(data, "DeprecationWarning: foo is deprecated", "pkg/mod.py",
             "alpha: test1") = 1

\* C1 amended: the third word of the example line is 'DeprecationWarning:', so
\* parsing the example log gives exactly the one entry
\* data['foo is deprecated']['DeprecationWarning']['alpha: test1'] = 1.
C1_ThirdWord ==
    C1_Parsed =>
        data = <<[k |-> "foo is deprecated",
                  v |-> <<[k |-> "DeprecationWarning",
                           v |-> <<[k |-> "alpha: test1", v |-> 1]>>]>>]>>

C1_Witness == C1_Parsed /\ raised = "" /\ Len(data) = 1

(***************************************************************************)
(* C2.  Status lines.                                                      *)
(***************************************************************************)
\* A line scalar_status=<S>, S a status code (no '=' in it).
IsStatusRow(row) ==
    StartsWith(row, "scalar_status=") /\ ~Contains(After(row, "="), "=")

\* stats2 is stats with the counter of (p, s) one higher and nothing else changed.
OnlyBump(t, t2, p, s) ==
    /\ CounterAt(t2, p, s) = CounterAt(t, p, s) + 1
    /\ KeySet(t2) = KeySet(t)
    /\ \A q \in KeySet(t), c \in StatusKeys(t) \cup StatusKeys(t2) :
          <<q, c>> # <<p, s>> => CounterAt(t2, q, c) = CounterAt(t, q, c)

\* C2: a scalar_status=<S> line read while a block of project P is open adds
\* exactly 1 to stats[P][S] and changes no other counter; read while no block
\* is open it changes no counter.
C2_StatusCounted ==
    [][(pc = "parse_log" /\ Len(fin) > 0 /\ IsStatusRow(Strip(Head(fin)))) =>
          IF OpenAfter(RowsRead)
          THEN /\ OnlyBump(stats, stats', ProjectAfter(RowsRead),
                           After(Strip(Head(fin)), "="))
               /\ data' = data
          ELSE stats' = stats /\ data' = data]_vars

\* A status line outside any block, then one inside the block of alpha.
C2_Witness ==
    /\ pc = "parse_log"
    /\ nruns = 1
    /\ RowsRead = <<"scalar_status=P\n", "scalar_project=alpha\n", "scalar_status=P\n">>
    /\ stats = <<[k |-> "alpha", v |-> <<[k |-> "P", v |-> 1]>>]>>

(***************************************************************************)
(* C3.  Exceptions.                                                        *)
(***************************************************************************)
\* C3: parse_log runs to the end of every file without raising.
C3_NeverRaises == raised = ""

C6_MissingInput ==
    [][\A filename \in InPaths :
          (fs[filename].kind # "file" /\ parse_log(filename)) =>
              /\ data' = data
              /\ stats' = stats
              /\ empty_log' = empty_log
              /\ raised' = ""
              /\ pc' = "idle"]_vars

\* The first call on the log raised; a later call on a missing path returned
\* (raised is clear again) and the aggregation is that of the first call.
C6_Witness ==
    /\ pc = "idle"
    /\ nruns = 1
    /\ FirstRun.raised # ""
    /\ raised = ""
    /\ data = FirstRun.data
    /\ stats = FirstRun.stats
    /\ ~empty_log

(***************************************************************************)
(* C7.  The same warning line several times.                               *)
(***************************************************************************)
\* The number of copies of the last line that end these lines.
RECURSIVE Repeats(_)
Repeats(lines) ==
    IF Len(lines) = 0 THEN 0
    ELSE IF Len(lines) = 1 \/ lines[Len(lines)] # lines[Len(lines) - 1] THEN 1
    ELSE 1 + Repeats(SubSeq(lines, 1, Len(lines) - 1))

\* Row is a warning line that st accepts: a block is open, project and test
\* name are set, the line takes the warning branch, passes the creature
\* filter and has three words.
Accepts(st, row) ==
    /\ st.raised = ""
    /\ st.in_data_block
    /\ st.scalar_project.bound
    /\ st.scalar_test_name.bound
    /\ Branch(row, TRUE) = "warning"
    /\ HasCreature(row, creatures)
    /\ Len(Words(row)) >= 3

\* C7: when the lines read in one parse_log call end with n copies of one
\* accepted warning line, data holds its (warning, module, test) triple once,
\* with n more occurrences than before the first copy, and no other entry has
\* been added; data never holds a key twice.
C7_Tally ==
    /\ UniqueKeys(data)
    /\ \A i \in 1..Len(data) :
          /\ UniqueKeys(data[i].v)
          /\ \A j \in 1..Len(data[i].v) : UniqueKeys(data[i].v[j].v)
    /\ (pc = "parse_log" /\ nruns = 1 /\ Len(RowsRead) > 0) =>
          \A n \in 1..Repeats(RowsRead) :
             LET before == RunLoop(Fresh, SubSeq(RowsRead, 1, Len(RowsRead) - n),
                                   creatures)
                 row == Strip(RowsRead[Len(RowsRead)])
                 words == Words(row)
                 w == WarnStr(words)
                 m == ModuleLoc(words)
                 t == TInfo(before.scalar_project.s, before.scalar_test_name.s)
             IN  Accepts(before, row) =>
                    /\ Leaf(data, w, m, t) = Leaf(before.data, w, m, t) + n
                    /\ Triples(data) = Triples(before.data) \cup {<<w, m, t>>}

\* The warning line of the example read twice in the block of alpha, test1.
C7_Witness ==
    /\ pc = "parse_log"
    /\ nruns = 1
    /\ Len(RowsRead) = 4
    /\ RowsRead[4] = RowsRead[3]
    /\ Leaf(data, "foo is deprecated", "DeprecationWarning", "alpha: test1") = 2
    /\ Cardinality(Triples(data)) = 1

(***************************************************************************)
(* C5.  The overwrite gate of the two renderers.                           *)
(***************************************************************************)
\* C5: a to_html or report_stats call whose target exists and whose
\* overwrite is false leaves every file as it was; any other call leaves
\* the target holding the rendering of the current aggregation, and every
\* other file as it was.
C5_OverwriteGate ==
    [][\A filename \in OutPaths, overwrite \in BOOLEAN :
          /\ to_html(filename, DefaultTitle, overwrite) =>
                IF fs[filename].kind # "none" /\ ~overwrite
                THEN fs' = fs
                ELSE fs' = [fs EXCEPT ![filename] =
                               [kind |-> "file",
                                text |-> Html(data, empty_log, DefaultTitle)]]
          /\ report_stats(filename, overwrite) =>
                IF fs[filename].kind # "none" /\ ~overwrite
                THEN fs' = fs
                ELSE fs' = [fs EXCEPT ![filename] =
                               [kind |-> "file", text |-> Json(stats)]]]_vars

\* One target still holds what the previous day left, the other has been
\* written by this run, and parsing has since found data: the next call on
\* either target is refused without overwrite and rewrites it with overwrite.
C5_Witness ==
    /\ pc = "idle"
    /\ fs[OldPath].text = StaleText
    /\ origin[NewPath].by = "to_html"
    /\ origin[NewPath].run < nruns
    /\ Len(data) > 0
    /\ fs[NewPath].text # Html(data, empty_log, DefaultTitle)

(***************************************************************************)
(* C8.  The two notices and empty_log.                                     *)
(***************************************************************************)
\* A parse_log call has read at least one line.
AnyLineRead ==
    /\ nruns >= 1
    /\ Len(LogRows) > 0
    /\ (pc = "parse_log" /\ nruns = 1) => Len(fin) < Len(LogRows)

\* The file at path was written by to_html from the aggregation as it is now.
HtmlOfNow(path) == origin[path] = [by |-> "to_html", run |-> nruns]

\* C8: empty_log is true exactly as long as no line has been read; a document
\* rendered from an aggregation without data carries the empty-log notice when
\* no line was read and the no-info notice when a line was read, never both,
\* and a document rendered from an aggregation with data carries neither.
C8_Notices ==
    /\ empty_log <=> ~AnyLineRead
    /\ \A path \in OutPaths :
          HtmlOfNow(path) =>
             LET doc == fs[path].text
                 empty == Contains(doc, "PDK log is empty!")
                 noinfo == Contains(doc, "PDK log has no info of interest!")
             IN  IF Len(data) = 0
                 THEN (empty <=> ~AnyLineRead) /\ (noinfo <=> AnyLineRead)
                 ELSE ~empty /\ ~noinfo

\* A log with lines and nothing of interest, rendered.
C8_Witness ==
    /\ HtmlOfNow(NewPath)
    /\ nruns = 1
    /\ Len(LogRows) > 0
    /\ Len(data) = 0
    /\ Contains(fs[NewPath].text, "PDK log has no info of interest!")

(***************************************************************************)
(* C9.  The order of the paragraphs.                                       *)
(***************************************************************************)
\* The text of a paragraph of the document at its level (0 warning, 1 module,
\* 2 test); a test paragraph loses its repetition note.
Level(line) ==
    IF StartsWith(line, "<p>&emsp;&emsp;&emsp;&emsp;") THEN 2
    ELSE IF StartsWith(line, "<p>&emsp;&emsp;") THEN 1
    ELSE IF StartsWith(line, "<p>") THEN 0
    ELSE 3

RECURSIVE CutNote(_)
CutNote(s) ==
    IF Len(s) = 0 THEN s
    ELSE IF StartsWith(s, " (repeated ") THEN ""
    ELSE Char(s, 1) \o CutNote(From(s, 2))

ParaText(line) ==
    LET inner == SubSeq(line, 1, Len(line) - Len("</p>"))
    IN  CASE Level(line) = 2 -> CutNote(From(inner, Len("<p>&emsp;&emsp;&emsp;&emsp;") + 1))
          [] Level(line) = 1 -> From(inner, Len("<p>&emsp;&emsp;") + 1)
          [] OTHER -> From(inner, Len("<p>") + 1)

\* The paragraphs go up strictly at each level: w, m and t are the sequences
\* (empty or of one text) of the last warning, the last module under it and
\* the last test under that.
RECURSIVE Ascending(_, _, _, _)
Ascending(lines, w, m, t) ==
    IF Len(lines) = 0 THEN TRUE
    ELSE LET line == Head(lines)
             lv == Level(line)
             prev == CASE lv = 0 -> w [] lv = 1 -> m [] OTHER -> t
         IN  IF lv = 3 THEN Ascending(Tail(lines), w, m, t)
             ELSE /\ Len(prev) = 0 \/ StrLess(prev[1], ParaText(line))
                  /\ CASE lv = 0 -> Ascending(Tail(lines), <<ParaText(line)>>, <<>>, <<>>)
                       [] lv = 1 -> Ascending(Tail(lines), w, <<ParaText(line)>>, <<>>)
                       [] OTHER -> Ascending(Tail(lines), w, m, <<ParaText(line)>>)

\* The same content with the keys of every level inserted in ascending order.
SortCounter(c) == LET ks == Sorted(Keys(c)) IN [i \in 1..Len(ks) |-> [k |-> ks[i], v |-> Get(c, ks[i])]]
SortModules(w) ==
    LET ks == Sorted(Keys(w))
    IN  [i \in 1..Len(ks) |-> [k |-> ks[i], v |-> SortCounter(Get(w, ks[i]))]]
SortData(d) ==
    LET ks == Sorted(Keys(d))
    IN  [i \in 1..Len(ks) |-> [k |-> ks[i], v |-> SortModules(Get(d, ks[i]))]]

\* C9: in every document to_html wrote, the warning paragraphs, the module
\* paragraphs under one warning and the test paragraphs under one module go up
\* by code point; and the document is the one that the same content, inserted
\* in any other order, renders to.
C9_Order ==
    \A path \in OutPaths :
       /\ origin[path].by = "to_html" => Ascending(Split(fs[path].text, "\n"), <<>>, <<>>, <<>>)
       /\ HtmlOfNow(path) =>
             fs[path].text = Html(SortData(data), empty_log, DefaultTitle)

\* A document of an aggregation whose warnings, and the modules of one of
\* them, were inserted in another order than the ascending one.
C9_Witness ==
    /\ HtmlOfNow(NewPath)
    /\ Keys(data) # Sorted(Keys(data))
    /\ \E i \in 1..Len(data) : Keys(data[i].v) # Sorted(Keys(data[i].v))

(***************************************************************************)
(* C10.  Rendering twice.                                                  *)
(***************************************************************************)
\* C10: two files written by the same renderer from the same aggregation
\* hold the same bytes, whatever they held before.
C10_Deterministic ==
    \A p, q \in OutPaths :
       (origin[p].by # "" /\ origin[p] = origin[q]) => fs[p].text = fs[q].text

\* Both targets rendered from an aggregation with data, one of them over the
\* file of the previous day.
C10_Witness ==
    /\ origin[NewPath] = origin[OldPath]
    /\ origin[NewPath].by = "to_html"
    /\ nruns = 1
    /\ Len(data) > 0

(***************************************************************************)
(* C11.  The repetition note of a test paragraph.                          *)
(***************************************************************************)
\* Every test paragraph of the document, read under the warning w and the
\* module m of the paragraphs before it, is its test identifier alone when
\* data counts it once and the identifier with ' (repeated N times)', N its
\* count, when data counts it more often.
RECURSIVE Annotated(_, _, _)
Annotated(lines, w, m) ==
    IF Len(lines) = 0 THEN TRUE
    ELSE LET line == Head(lines)
             lv == Level(line)
         IN  CASE lv = 0 -> Annotated(Tail(lines), ParaText(line), m)
               [] lv = 1 -> Annotated(Tail(lines), w, ParaText(line))
               [] lv = 2 ->
                    LET t == ParaText(line)
                        n == Leaf(data, w, m, t)
                        start == "<p>&emsp;&emsp;&emsp;&emsp;" \o t
                    IN  /\ n >= 1
                        /\ n = 1 => line = start \o "</p>"
                        /\ n > 1 => line = start \o " (repeated " \o IntStr(n)
                                               \o " times)</p>"
                        /\ Annotated(Tail(lines), w, m)
               [] OTHER -> Annotated(Tail(lines), w, m)

\* The number of test paragraphs of the document.
TestParagraphs(lines) == Cardinality({i \in 1..Len(lines) : Level(lines[i]) = 2})

\* C11: in a document to_html wrote, every test identifier of data has its
\* paragraph, and the paragraph carries ' (repeated N times)', N its count,
\* exactly when the count is above 1.
C11_Annotation ==
    \A path \in OutPaths :
       HtmlOfNow(path) =>
          LET lines == Split(fs[path].text, "\n")
          IN  /\ Annotated(lines, "", "")
              /\ Len(data) > 0 => TestParagraphs(lines) = Cardinality(Triples(data))

\* A document with a test identifier counted twice and one counted once.
C11_Witness ==
    /\ HtmlOfNow(NewPath)
    /\ \E tr \in Triples(data) : Leaf(data, tr[1], tr[2], tr[3]) = 2
    /\ \E tr \in Triples(data) : Leaf(data, tr[1], tr[2], tr[3]) = 1
    /\ Contains(fs[NewPath].text, "alpha: test1 (repeated 2 times)</p>")

(***************************************************************************)
(* C12.  The test name of an earlier block.                                *)
(***************************************************************************)
\* The last of the lines, stripped, and the lines before it.
LastRow(lines) == Strip(lines[Len(lines)])
Before(lines) == SubSeq(lines, 1, Len(lines) - 1)

\* A line that the parser takes for a warning when a block is open: it has
\* the marker and a creature and none of the three scalar_ keys.
IsWarningRow(row) ==
    /\ WarnMatch(row)
    /\ HasCreature(row, creatures)
    /\ ~Contains(row, "scalar_project=")
    /\ ~Contains(row, "scalar_test_name=")
    /\ ~Contains(row, "scalar_status=")

\* The lines of the block that is open after these lines: those after the
\* last scalar_project= line.
RECURSIVE BlockAfter(_)
BlockAfter(lines) ==
    IF Len(lines) = 0 \/ Contains(LastRow(lines), "scalar_project=") THEN <<>>
    ELSE Append(BlockAfter(Before(lines)), lines[Len(lines)])

\* The test names that the scalar_test_name= lines among these lines set.
TestNamesIn(lines) ==
    {After(Strip(lines[i]), "=") :
        i \in {j \in 1..Len(lines) : Contains(Strip(lines[j]), "scalar_test_name=")}}

\* C12: a warning line that has just been recorded stands in a block that
\* set a test name, and data holds the warning under the project of that
\* block and a test name that block set.
C12_NoStaleName ==
    (pc = "parse_log" /\ Len(RowsRead) > 0 /\ IsWarningRow(LastRow(RowsRead))
        /\ OpenAfter(Before(RowsRead))) =>
       LET words == Words(LastRow(RowsRead))
           names == TestNamesIn(BlockAfter(Before(RowsRead)))
       IN  \E name \in names :
              Leaf(data, WarnStr(words), ModuleLoc(words),
                   ProjectAfter(Before(RowsRead)) \o ": " \o name) >= 1

(***************************************************************************)
(* C13.  Values that contain '='.                                          *)
(***************************************************************************)
\* C13: after a line handled as a scalar_project=, scalar_test_name= or
\* scalar_status= line, the project, the test name or the status counted is
\* the whole text of the stripped line after its first '='.
C13_WholeValue ==
    (pc = "parse_log" /\ Len(RowsRead) > 0) =>
       LET row == LastRow(RowsRead)
           open == OpenAfter(Before(RowsRead))
       IN  IF Contains(row, "scalar_project=")
           THEN scalar_project = [bound |-> TRUE, s |-> After(row, "=")]
           ELSE IF open /\ Contains(row, "scalar_test_name=")
           THEN scalar_test_name = [bound |-> TRUE, s |-> After(row, "=")]
           ELSE IF open /\ Contains(row, "scalar_status=")
           THEN CounterAt(stats, scalar_project.s, After(row, "=")) >= 1
           ELSE TRUE

(***************************************************************************)
(* C14.  Warning and test name lines outside a block.                      *)
(***************************************************************************)
\* C14: a warning line or a scalar_test_name= line read while no block is
\* open changes neither data nor stats, leaves the block closed and the
\* project and test name as they were, and does not end the call.
C14_PartialRecord ==
    [][(/\ pc = "parse_log"
        /\ Len(fin) > 0
        /\ ~OpenAfter(RowsRead)
        /\ ~Contains(Strip(Head(fin)), "scalar_project=")
        /\ \/ WarnMatch(Strip(Head(fin)))
           \/ Contains(Strip(Head(fin)), "scalar_test_name=")) =>
          /\ data' = data
          /\ stats' = stats
          /\ in_data_block' = FALSE
          /\ scalar_project' = scalar_project
          /\ scalar_test_name' = scalar_test_name
          /\ raised' = ""
          /\ pc' = "parse_log"]_vars

\* A test name line and a warning line before the first block, then the
\* block is opened: no test name is known in it and nothing is recorded.
C14_Witness ==
    /\ pc = "parse_log"
    /\ nruns = 1
    /\ Len(RowsRead) = 3
    /\ Contains(RowsRead[1], "scalar_test_name=")
    /\ WarnMatch(RowsRead[2])
    /\ Contains(RowsRead[3], "scalar_project=")
    /\ in_data_block
    /\ scalar_test_name = Unbound
    /\ data = <<>>

(***************************************************************************)
(* C15.  The block flag and the order of the rules.                        *)
(***************************************************************************)
\* The first of the five rules (1 project, 2 test name, 3 status, 4 warning,
\* 5 END) that matches the row, 0 when none does.
RuleOf(row, open) ==
    IF Contains(row, "scalar_project=") THEN 1
    ELSE IF ~open THEN 0
    ELSE IF Contains(row, "scalar_test_name=") THEN 2
    ELSE IF Contains(row, "scalar_status=") THEN 3
    ELSE IF WarnMatch(row) THEN 4
    ELSE IF row = "END" THEN 5
    ELSE 0

\* The counters of stats are those of t, with the same keys before any new one.
SameCounters(t, t2) ==
    /\ Len(t2) >= Len(t)
    /\ SubSeq(t2, 1, Len(t)) = t

\* C15: before every line the block flag is true exactly when the last of
\* the lines read that hold scalar_project= or are END is a scalar_project=
\* line, and so it is after the line; the line has the effect of the first
\* rule that matches it, in the order project, test name, status, warning,
\* END, and of no other rule.
C15_Lifecycle ==
    [][(pc = "parse_log" /\ Len(fin) > 0) =>
          LET row == Strip(Head(fin))
              rule == RuleOf(row, OpenAfter(RowsRead))
              names == scalar_project' = scalar_project
                         /\ scalar_test_name' = scalar_test_name
              flag == in_data_block' = in_data_block
          IN  /\ in_data_block = OpenAfter(RowsRead)
              /\ raised' = "" => in_data_block' = OpenAfter(Append(RowsRead, Head(fin)))
              /\ CASE rule = 1 ->
                        /\ data' = data
                        /\ SameCounters(stats, stats')
                        /\ scalar_test_name' = scalar_test_name
                        /\ scalar_project'.bound
                   [] rule = 2 ->
                        /\ data' = data /\ stats' = stats /\ flag
                        /\ scalar_project' = scalar_project
                        /\ scalar_test_name'.bound
                   [] rule = 3 ->
                        /\ data' = data /\ stats' # stats /\ flag /\ names
                   [] rule = 4 ->
                        /\ stats' = stats
                        /\ raised' = "" => (flag /\ names)
                   [] rule = 5 ->
                        /\ data' = data /\ stats' = stats
                        /\ scalar_project' = [bound |-> TRUE, s |-> ""]
                        /\ scalar_test_name' = [bound |-> TRUE, s |-> ""]
                   [] OTHER ->
                        data' = data /\ stats' = stats /\ flag /\ names]_vars

\* A line with the warning marker and scalar_status= in it has been read in
\* the block of alpha: it was counted as a status and not recorded as a warning.
C15_Witness ==
    /\ pc = "parse_log"
    /\ Len(RowsRead) = 3
    /\ WarnMatch(RowsRead[3])
    /\ Contains(RowsRead[3], "scalar_status=")
    /\ in_data_block
    /\ stats = <<[k |-> "alpha", v |-> <<[k |-> "P", v |-> 1]>>]>>
    /\ data = <<>>

(***************************************************************************)
(* C16.  A last block without END.                                         *)
(***************************************************************************)
\* The sums of the counters of a Counter, of stats and of data.
RECURSIVE SumCounter(_)
SumCounter(c) == IF Len(c) = 0 THEN 0 ELSE Head(c).v + SumCounter(Tail(c))
RECURSIVE SumStats(_)
SumStats(t) == IF Len(t) = 0 THEN 0 ELSE SumCounter(Head(t).v) + SumStats(Tail(t))
RECURSIVE SumData(_)
SumData(d) == IF Len(d) = 0 THEN 0 ELSE SumStats(Head(d).v) + SumData(Tail(d))

\* The status lines and the warning lines among these lines that stand in an
\* open block.
StatusRowsIn(lines) ==
    {i \in 1..Len(lines) :
        OpenAfter(SubSeq(lines, 1, i - 1)) /\ IsStatusRow(Strip(lines[i]))}
WarningRowsIn(lines) ==
    {i \in 1..Len(lines) :
        OpenAfter(SubSeq(lines, 1, i - 1)) /\ IsWarningRow(Strip(lines[i]))}

\* C16: after parse_log on a log whose last block has no END, every status
\* line and every warning line of the log that stands in a block is in the
\* tallies, and data, stats and empty_log are those of the same log with a
\* last line END.
C16_UnclosedBlock ==
    (pc = "idle" /\ nruns = 1 /\ OpenAfter(LogRows)) =>
       LET closed == RunLoop(Fresh, Append(LogRows, "END\n"), creatures)
       IN  /\ data = closed.data
           /\ stats = closed.stats
           /\ empty_log = closed.empty_log
           /\ SumStats(stats) = Cardinality(StatusRowsIn(LogRows))
           /\ SumData(data) = Cardinality(WarningRowsIn(LogRows))

(***************************************************************************)
(* C17.  The creature filter.                                              *)
(***************************************************************************)
\* C17: a line with the warning marker read in an open block adds one
\* occurrence to data when creatures is empty or one of them is in the line,
\* and changes neither data nor stats otherwise.
C17_Filter ==
    [][(/\ pc = "parse_log"
        /\ Len(fin) > 0
        /\ OpenAfter(RowsRead)
        /\ RuleOf(Strip(Head(fin)), TRUE) = 4) =>
          IF Len(creatures) = 0
             \/ \E i \in 1..Len(creatures) : Contains(Strip(Head(fin)), creatures[i])
          THEN SumData(data') = SumData(data) + 1
          ELSE data' = data /\ stats' = stats]_vars

(***************************************************************************)
(* C18.  The renderers and the aggregation.                                *)
(***************************************************************************)
\* C18: no step outside a parse run of the log (a to_html or report_stats
\* call, writing or refused) changes data, stats, empty_log or creatures.
C18_ReadOnly ==
    [][(pc = "idle" /\ pc' = "idle") =>
          /\ data' = data
          /\ stats' = stats
          /\ empty_log' = empty_log
          /\ creatures' = creatures]_vars

\* Both renderers have written after a parse run that found data and
\* statuses, and the aggregation is still that of the run.
C18_Witness ==
    /\ pc = "idle"
    /\ nruns = 1
    /\ origin[NewPath] = [by |-> "to_html", run |-> 1]
    /\ origin[OldPath] = [by |-> "report_stats", run |-> 1]
    /\ Len(data) > 0
    /\ SumStats(stats) > 0
    /\ data = FirstRun.data
    /\ stats = FirstRun.stats

(***************************************************************************)
(* C19.  Conservation and monotonicity of the tallies.                     *)
(***************************************************************************)
\* Every stored counter is at least 1.
AllPositive(t) == \A i \in 1..Len(t) : \A j \in 1..Len(t[i].v) : t[i].v[j].v >= 1

\* C19: in the first parse run on a fresh object, every line read adds to the
\* sum of the leaf counters of data 1 when it is a warning line in an open
\* block and 0 otherwise, and to the sum of the counters of stats 1 when it
\* is a status line in an open block and 0 otherwise; every stored counter is
\* at least 1; no key is removed and no counter goes down.
C19_Conservation ==
    [][(pc = "parse_log" /\ nruns = 1 /\ Len(fin) > 0) =>
          LET row == Strip(Head(fin))
              open == OpenAfter(RowsRead)
          IN  /\ SumData(data') = SumData(data)
                    + (IF open /\ IsWarningRow(row) THEN 1 ELSE 0)
              /\ SumStats(stats') = SumStats(stats)
                    + (IF open /\ IsStatusRow(row) THEN 1 ELSE 0)
              /\ AllPositive(stats')
              /\ \A i \in 1..Len(data') : AllPositive(data'[i].v)
              /\ \A tr \in Triples(data) :
                    Leaf(data', tr[1], tr[2], tr[3]) >= Leaf(data, tr[1], tr[2], tr[3])
              /\ KeySet(stats) \subseteq KeySet(stats')
              /\ \A p \in KeySet(stats), c \in StatusKeys(stats) :
                    CounterAt(stats', p, c) >= CounterAt(stats, p, c)]_vars

=============================================================================
